---- MODULE Spec2Model ----
(***************************************************************************)
(* A model of tcpproxy_server.cpp: one acceptor, one bridge per accepted   *)
(* client, every bridge relaying bytes between its downstream (client)     *)
(* socket and its upstream (remote server) socket.  All completion         *)
(* handlers run on the single thread that calls ios.run(), so every        *)
(* handler is one atomic action.  An asynchronous operation has two        *)
(* steps: the operating system completes it (the result is queued), and    *)
(* later the io_context runs its handler.                                  *)
(***************************************************************************)
EXTENDS Integers, Sequences, FiniteSets, TLC

\* Bounds of the model.
MaxClients == 1          \* Spec: client connections that reach the listener
MaxSend == 3             \* Spec: bytes a peer sends on one connection
MaxSessions == 2         \* SpecSessions: client connections
MaxSessionSend == 1      \* SpecSessions: bytes a peer sends
max_data_length == 2     \* size of a bridge buffer (8192 in the source), scaled

Max(a, b) == IF a > b THEN a ELSE b
Relays == 1..(Max(MaxClients, MaxSessions) + 1)
Side == {"downstream", "upstream"}

\* The socket a pipeline writes to, given the socket it reads from.
Other(s) == IF s = "downstream" THEN "upstream" ELSE "downstream"

\* The i-th byte the peer on side s of bridge r sends: all bytes differ.
Byte(r, s, i) == 100 * r + (IF s = "downstream" THEN 10 ELSE 20) + i
PeerStream(r, s) == [i \in 1..Max(MaxSend, MaxSessionSend) |-> Byte(r, s, i)]
ByteRelay(b) == b \div 100
ByteSide(b) == IF (b % 100) \div 10 = 1 THEN "downstream" ELSE "upstream"

Min(a, b) == IF a < b THEN a ELSE b
IsPrefix(p, q) == Len(p) <= Len(q) /\ SubSeq(q, 1, Len(p)) = p

VARIABLES
  proc,               \* main: "running" (inside ios.run()), "exit0", "exit1"
  threw,              \* the exception that left ios.run(): <<>> or <<what, bridge>>
  upstream_host_,     \* acceptor::upstream_host_: "valid" or "invalid" address text
  load,               \* the environment: clients that connect, bytes a peer sends
  accept_op,          \* the acceptor's async_accept
  session_,           \* acceptor::session_
  bridge,             \* per bridge: "unused", "constructed", "started"
  connect_op,         \* per bridge: the async_connect of start()
  socket_,            \* per bridge and side: "closed" or "open"
  op,                 \* per bridge and pipeline (named by its source side)
  ec,                 \* error code of the completed operation of a pipeline
  data_,              \* per bridge: downstream_data_ and upstream_data_
  bytes_transferred,  \* result of the last read of a pipeline
  woff,               \* bytes of the current async_write already written
  rxq,                \* bytes received on a socket and not yet read
  peer,               \* the remote end of each socket
  readlog,            \* history: bytes read from each socket
  delivered,          \* history: bytes written to each socket
  nclose,             \* history: close() calls made on each socket
  ninvoke,            \* history: invocations of bridge::close
  nconnect,           \* history: async_connect calls of each bridge
  refs                \* per bridge: shared_ptr copies held by bound handlers

vars == <<proc, threw, upstream_host_, load, accept_op, session_, bridge, connect_op,
          socket_, op, ec, data_, bytes_transferred, woff, rxq, peer,
          readlog, delivered, nclose, ninvoke, nconnect, refs>>

cfgVars == <<upstream_host_, load>>
listenerVars == <<accept_op, session_, bridge>>
bufVars == <<data_, bytes_transferred, woff>>
histVars == <<readlog, delivered, nclose, ninvoke, nconnect, refs>>

OpStates == {"idle", "read_pending", "read_ready", "write_pending",
             "write_ready", "done"}
Outstanding == {"read_pending", "read_ready", "write_pending", "write_ready"}
Errors == {"eof", "reset", "broken_pipe", "aborted", "bad_descriptor"}

TypeOK ==
  /\ proc \in {"running", "exit0", "exit1"}
  /\ upstream_host_ \in {"valid", "invalid"}
  /\ accept_op \in {"none", "pending", "ready_ok", "ready_err"}
  /\ session_ \in Relays
  /\ bridge \in [Relays -> {"unused", "constructed", "started"}]
  /\ connect_op \in [Relays -> {"none", "pending", "ready_ok", "ready_err",
                                "done_ok", "done_err"}]
  /\ socket_ \in [Relays -> [Side -> {"closed", "open"}]]
  /\ op \in [Relays -> [Side -> OpStates]]
  /\ ec \in [Relays -> [Side -> {"ok"} \cup Errors]]
  /\ \A r \in Relays, s \in Side :
       /\ Len(data_[r][s]) = max_data_length
       /\ bytes_transferred[r][s] \in 0..max_data_length
       /\ woff[r][s] \in 0..max_data_length
       /\ Len(rxq[r][s]) <= load.bytes
       /\ peer[r][s] \in {"none", "open", "stalled", "shut_wr", "closed"}
       /\ nclose[r][s] \in 0..3
  /\ \A r \in Relays : ninvoke[r] \in 0..3 /\ nconnect[r] \in 0..2
  /\ \A r \in Relays : refs[r] \in 0..3

\* The state when main enters ios.run(): the acceptor is constructed and
\* its first accept_connections has issued the async_accept on a new bridge.
Started(clients, bytes) ==
  /\ proc = "running"
  /\ threw = <<>>
  /\ upstream_host_ \in {"valid", "invalid"}
  /\ load = [clients |-> clients, bytes |-> bytes]
  /\ accept_op = "pending"
  /\ session_ = 1
  /\ bridge = [r \in Relays |-> IF r = 1 THEN "constructed" ELSE "unused"]
  /\ connect_op = [r \in Relays |-> "none"]
  /\ socket_ = [r \in Relays |-> [s \in Side |-> "closed"]]
  /\ op = [r \in Relays |-> [s \in Side |-> "idle"]]
  /\ ec = [r \in Relays |-> [s \in Side |-> "ok"]]
  /\ data_ = [r \in Relays |-> [s \in Side |-> [i \in 1..max_data_length |-> 0]]]
  /\ bytes_transferred = [r \in Relays |-> [s \in Side |-> 0]]
  /\ woff = [r \in Relays |-> [s \in Side |-> 0]]
  /\ rxq = [r \in Relays |-> [s \in Side |-> <<>>]]
  /\ peer = [r \in Relays |-> [s \in Side |-> "none"]]
  /\ readlog = [r \in Relays |-> [s \in Side |-> <<>>]]
  /\ delivered = [r \in Relays |-> [s \in Side |-> <<>>]]
  /\ nclose = [r \in Relays |-> [s \in Side |-> 0]]
  /\ ninvoke = [r \in Relays |-> 0]
  /\ nconnect = [r \in Relays |-> 0]
  /\ refs = [r \in Relays |-> 0]

Init == Started(MaxClients, MaxSend)
InitSessions == Started(MaxSessions, MaxSessionSend)

\* io_context::run() keeps running while an operation is outstanding.
Work(a, c, o) ==
  \/ a # "none"
  \/ \E r \in Relays : c[r] \in {"pending", "ready_ok", "ready_err"}
  \/ \E r \in Relays, s \in Side : o[r][s] \in Outstanding

\* main after a handler returned: ios.run() returns when no work is left.
RunOrReturn(a, c, o) == IF Work(a, c, o) THEN "running" ELSE "exit0"

\* Process exit: the io_context and every bridge are destroyed.
AllClosed == [r \in Relays |-> [s \in Side |-> "closed"]]

(***************************************************************************)
(* Ownership of a bridge: the shared_ptr copies bound into its handlers    *)
(* and the acceptor's session_                                             *)
(***************************************************************************)

\* Faulty variant: the handlers are bound to the raw pointer `this`, which
\* holds no reference.
raw_this(r) == 0

\* std::bind(&bridge::handle_..., shared_from_this(), ...): the references
\* to bridge r that one bound handler holds.
shared_from_this(r) == 1

\* A handler of bridge r returns after it bound n new handlers: the copy
\* bound into the handler that ran is destroyed.
HandlerReturns(r, n) ==
  [refs EXCEPT ![r] = @ + n * shared_from_this(r) - shared_from_this(r)]

\* shared_ptr::use_count of bridge r: session_ holds one reference; at
\* process exit the acceptor and the io_context with its handlers are gone.
use_count(r) ==
  IF proc # "running" THEN 0
  ELSE refs[r] + (IF session_ = r THEN 1 ELSE 0)

\* The last shared_ptr to a constructed bridge is gone: ~bridge has run.
Destroyed(r) == bridge[r] # "unused" /\ use_count(r) = 0

(***************************************************************************)
(* bridge::close                                                           *)
(***************************************************************************)

\* What a close() call on a socket can report: "none" when no call fails,
\* or the side whose close() call reports an error (it throws).
CloseOutcomes(r) == {"none"} \cup {s \in Side : socket_[r][s] = "open"}

\* The sockets bridge::close calls close() on: each one that is open, the
\* downstream one first; an exception from that call skips the upstream one.
CloseCalls(r, fail) ==
  {s \in Side : /\ socket_[r][s] = "open"
                /\ ~(s = "upstream" /\ fail = "downstream"
                       /\ socket_[r]["downstream"] = "open")}

\* Closing a socket cancels the operations pending on it: each completes
\* with operation_aborted.  o and e are op and ec as the caller leaves them.
Cancelled(o, r, calls) ==
  {p \in Side : \/ o[r][p] = "read_pending" /\ p \in calls
                \/ o[r][p] = "write_pending" /\ Other(p) \in calls}

close(r, c, o, e, fail) ==
  LET calls == CloseCalls(r, fail)
      gone == Cancelled(o, r, calls)
      o2 == [o EXCEPT ![r] = [p \in Side |->
                IF p \notin gone THEN o[r][p]
                ELSE IF o[r][p] = "read_pending" THEN "read_ready"
                ELSE "write_ready"]]
      e2 == [e EXCEPT ![r] = [p \in Side |->
                IF p \in gone THEN "aborted" ELSE e[r][p]]]
  IN /\ fail \in CloseOutcomes(r)
     /\ ninvoke' = [ninvoke EXCEPT ![r] = @ + 1]
     /\ nclose' = [nclose EXCEPT ![r] = [s \in Side |->
                     IF s \in calls THEN @[s] + 1 ELSE @[s]]]
     /\ op' = o2
     /\ ec' = e2
     /\ IF fail = "none"
          THEN /\ socket_' = [socket_ EXCEPT ![r] = [s \in Side |->
                                IF s \in calls THEN "closed" ELSE @[s]]]
               /\ threw' = threw
               /\ proc' = RunOrReturn(accept_op, c, o2)
          ELSE \* the exception leaves the handler, ios.run() and main's try
               /\ socket_' = AllClosed
               /\ threw' = <<"close", fail, r>>
               /\ proc' = "exit1"

(***************************************************************************)
(* acceptor                                                                *)
(***************************************************************************)

\* The operating system completes the outstanding async_accept.
AcceptComplete ==
  /\ proc = "running"
  /\ accept_op = "pending"
  /\ \/ /\ session_ <= load.clients
        /\ accept_op' = "ready_ok"
        /\ socket_' = [socket_ EXCEPT ![session_]["downstream"] = "open"]
        /\ peer' = [peer EXCEPT ![session_]["downstream"] = "open"]
     \/ /\ accept_op' = "ready_err"
        /\ UNCHANGED <<socket_, peer>>
  /\ UNCHANGED <<proc, threw, cfgVars, session_, bridge, connect_op,
                 op, ec, rxq, bufVars, histVars>>

\* Faulty variant: start connects synchronously, so the connect is complete when
\* start returns to handle_accept.
start_blocking(r, opened) ==
  /\ nconnect' = [nconnect EXCEPT ![r] = @ + 1]
  /\ refs' = [refs EXCEPT ![r] = @ + shared_from_this(r)]
  /\ socket_' = IF opened THEN [socket_ EXCEPT ![r]["upstream"] = "open"] ELSE socket_
  /\ connect_op' = [connect_op EXCEPT ![r] = IF opened THEN "ready_ok" ELSE "ready_err"]

\* bridge::start: async_connect opens the upstream socket and connects it;
\* when the socket cannot be opened the handler is queued with the error.
start(r, opened) ==
  /\ nconnect' = [nconnect EXCEPT ![r] = @ + 1]
  /\ refs' = [refs EXCEPT ![r] = @ + shared_from_this(r)]
  /\ IF opened
       THEN /\ socket_' = [socket_ EXCEPT ![r]["upstream"] = "open"]
            /\ connect_op' = [connect_op EXCEPT ![r] = "pending"]
       ELSE /\ socket_' = socket_
            /\ connect_op' = [connect_op EXCEPT ![r] = "ready_err"]

\* Faulty variant: the next accept is issued on the bridge session_ already holds.
accept_connections_reuse(b, issued) ==
  /\ session_' = session_
  /\ bridge' = b
  /\ accept_op' = IF issued THEN "pending" ELSE "none"

\* acceptor::accept_connections: a new bridge and an async_accept on it;
\* `issued` is FALSE when an exception is caught (the function returns false).
accept_connections(b, issued) ==
  IF issued
    THEN /\ session_' = session_ + 1
         /\ bridge' = [b EXCEPT ![session_ + 1] = "constructed"]
         /\ accept_op' = "pending"
    ELSE /\ session_' = session_
         /\ bridge' = b
         /\ accept_op' = "none"

handle_accept ==
  /\ proc = "running"
  /\ accept_op \in {"ready_ok", "ready_err"}
  /\ IF accept_op = "ready_err"
       THEN /\ accept_op' = "none"
            /\ proc' = RunOrReturn("none", connect_op, op)
            /\ UNCHANGED <<threw, session_, bridge, connect_op, socket_,
                           nconnect, refs>>
       ELSE IF upstream_host_ = "invalid"
       THEN \* make_address throws out of start, handle_accept and ios.run()
            /\ accept_op' = "none"
            /\ proc' = "exit1"
            /\ threw' = <<"make_address", "upstream", session_>>
            /\ socket_' = AllClosed
            /\ UNCHANGED <<session_, bridge, connect_op, nconnect, refs>>
       ELSE /\ \E opened \in BOOLEAN : start(session_, opened)
            /\ \E issued \in BOOLEAN :
                 accept_connections([bridge EXCEPT ![session_] = "started"], issued)
            /\ UNCHANGED <<proc, threw>>
  /\ UNCHANGED <<cfgVars, op, ec, rxq, peer, bufVars,
                 readlog, delivered, nclose, ninvoke>>

(***************************************************************************)
(* bridge: upstream connect                                                *)
(***************************************************************************)

\* The operating system completes the async_connect.
ConnectComplete(r) ==
  /\ proc = "running"
  /\ connect_op[r] = "pending"
  /\ \/ /\ connect_op' = [connect_op EXCEPT ![r] = "ready_ok"]
        /\ peer' = [peer EXCEPT ![r]["upstream"] = "open"]
     \/ /\ connect_op' = [connect_op EXCEPT ![r] = "ready_err"]
        /\ UNCHANGED peer
  /\ UNCHANGED <<proc, threw, cfgVars, listenerVars, socket_, op, ec,
                 rxq, bufVars, histVars>>

\* socket s of bridge r .async_read_some: the state of pipeline s afterwards.
async_read_some(r, s) ==
  IF socket_[r][s] = "open" THEN <<"read_pending", "ok">>
  ELSE <<"read_ready", "bad_descriptor">>

\* Faulty variant: a failed connect is ignored (close is not called).
handle_upstream_connect_leak(r, fail) ==
  /\ proc = "running"
  /\ connect_op[r] \in {"ready_ok", "ready_err"}
  /\ fail = "none"
  /\ IF connect_op[r] = "ready_ok"
       THEN /\ connect_op' = [connect_op EXCEPT ![r] = "done_ok"]
            /\ op' = [op EXCEPT ![r] = [s \in Side |-> async_read_some(r, s)[1]]]
            /\ ec' = [ec EXCEPT ![r] = [s \in Side |-> async_read_some(r, s)[2]]]
            /\ refs' = HandlerReturns(r, 2)
            /\ UNCHANGED proc
       ELSE /\ connect_op' = [connect_op EXCEPT ![r] = "done_err"]
            /\ proc' = RunOrReturn(accept_op, [connect_op EXCEPT ![r] = "done_err"], op)
            /\ refs' = HandlerReturns(r, 0)
            /\ UNCHANGED <<op, ec>>
  /\ UNCHANGED <<threw, socket_, nclose, ninvoke, cfgVars, listenerVars, rxq,
                 peer, bufVars, readlog, delivered, nconnect>>

\* Faulty variant: the error of the connect is not examined; the reads are
\* started in any case.
handle_upstream_connect_always(r, fail) ==
  /\ proc = "running"
  /\ connect_op[r] \in {"ready_ok", "ready_err"}
  /\ fail = "none"
  /\ connect_op' = [connect_op EXCEPT ![r] =
                      IF @ = "ready_ok" THEN "done_ok" ELSE "done_err"]
  /\ op' = [op EXCEPT ![r] = [s \in Side |-> async_read_some(r, s)[1]]]
  /\ ec' = [ec EXCEPT ![r] = [s \in Side |-> async_read_some(r, s)[2]]]
  /\ refs' = HandlerReturns(r, 2)
  /\ UNCHANGED <<proc, threw, socket_, nclose, ninvoke, cfgVars, listenerVars,
                 rxq, peer, bufVars, readlog, delivered, nconnect>>

\* Faulty variant: a failed connect is retried with a new async_connect on the
\* same socket.
handle_upstream_connect_retry(r, fail) ==
  /\ proc = "running"
  /\ connect_op[r] \in {"ready_ok", "ready_err"}
  /\ fail = "none"
  /\ IF connect_op[r] = "ready_ok"
       THEN /\ connect_op' = [connect_op EXCEPT ![r] = "done_ok"]
            /\ op' = [op EXCEPT ![r] = [s \in Side |-> async_read_some(r, s)[1]]]
            /\ ec' = [ec EXCEPT ![r] = [s \in Side |-> async_read_some(r, s)[2]]]
            /\ refs' = HandlerReturns(r, 2)
            /\ UNCHANGED <<socket_, nconnect>>
       ELSE /\ connect_op' = [connect_op EXCEPT ![r] = "pending"]
            /\ socket_' = [socket_ EXCEPT ![r]["upstream"] = "open"]
            /\ nconnect' = [nconnect EXCEPT ![r] = @ + 1]
            /\ refs' = HandlerReturns(r, 1)
            /\ UNCHANGED <<op, ec>>
  /\ UNCHANGED <<proc, threw, nclose, ninvoke, cfgVars, listenerVars, rxq,
                 peer, bufVars, readlog, delivered>>

handle_upstream_connect(r, fail) ==
  /\ proc = "running"
  /\ connect_op[r] \in {"ready_ok", "ready_err"}
  /\ IF connect_op[r] = "ready_ok"
       THEN /\ fail = "none"
            /\ connect_op' = [connect_op EXCEPT ![r] = "done_ok"]
            /\ op' = [op EXCEPT ![r] = [s \in Side |-> async_read_some(r, s)[1]]]
            /\ ec' = [ec EXCEPT ![r] = [s \in Side |-> async_read_some(r, s)[2]]]
            /\ refs' = HandlerReturns(r, 2)
            /\ UNCHANGED <<proc, threw, socket_, nclose, ninvoke>>
       ELSE /\ connect_op' = [connect_op EXCEPT ![r] = "done_err"]
            /\ close(r, [connect_op EXCEPT ![r] = "done_err"], op, ec, fail)
            /\ refs' = HandlerReturns(r, 0)
  /\ UNCHANGED <<cfgVars, listenerVars, rxq, peer, bufVars,
                 readlog, delivered, nconnect>>

(***************************************************************************)
(* bridge: the two forwarding pipelines.  Pipeline s reads from socket s   *)
(* into the buffer of that side and writes to socket Other(s):             *)
(* s = "upstream" is section A of the source, s = "downstream" section B.  *)
(***************************************************************************)

\* The operating system completes the async_read_some of pipeline s.
ReadComplete(r, s) ==
  /\ proc = "running"
  /\ op[r][s] = "read_pending"
  /\ \/ /\ rxq[r][s] # <<>>
        /\ LET k == Min(Len(rxq[r][s]), max_data_length) IN
             /\ data_' = [data_ EXCEPT ![r][s] = [i \in 1..max_data_length |->
                            IF i <= k THEN rxq[r][s][i] ELSE @[i]]]
             /\ bytes_transferred' = [bytes_transferred EXCEPT ![r][s] = k]
             /\ readlog' = [readlog EXCEPT ![r][s] = @ \o SubSeq(rxq[r][s], 1, k)]
             /\ rxq' = [rxq EXCEPT ![r][s] = SubSeq(@, k + 1, Len(@))]
             /\ ec' = [ec EXCEPT ![r][s] = "ok"]
     \/ /\ rxq[r][s] = <<>>
        /\ peer[r][s] \in {"shut_wr", "closed"}
        /\ ec' = [ec EXCEPT ![r][s] = "eof"]
        /\ bytes_transferred' = [bytes_transferred EXCEPT ![r][s] = 0]
        /\ UNCHANGED <<data_, readlog, rxq>>
     \/ /\ peer[r][s] = "closed"
        /\ ec' = [ec EXCEPT ![r][s] = "reset"]
        /\ bytes_transferred' = [bytes_transferred EXCEPT ![r][s] = 0]
        /\ UNCHANGED <<data_, readlog, rxq>>
  /\ op' = [op EXCEPT ![r][s] = "read_ready"]
  /\ UNCHANGED <<proc, threw, cfgVars, listenerVars, connect_op, socket_,
                 woff, peer, delivered, nclose, ninvoke, nconnect, refs>>

\* Faulty variant: the buffers are shared by all bridges (as static members would be).
Buffer_static(r, s) == data_[1][s]

\* The buffer pipeline s of bridge r reads into and writes from:
\* upstream_data_ (s = "upstream") or downstream_data_ (s = "downstream").
Buffer(r, s) == data_[r][s]

\* Faulty variant: the write sends the whole buffer, not the bytes the read returned.
WriteLen_whole(r, s) == max_data_length

\* asio::buffer(data, bytes_transferred): the bytes an async_write sends.
WriteLen(r, s) == bytes_transferred[r][s]

\* Faulty variant: the write is started whatever the state of the socket.
async_write_unchecked(r, s) == <<"write_pending", "ok">>

\* async_write to socket Other(s): the state of pipeline s afterwards.
async_write(r, s) ==
  IF socket_[r][Other(s)] = "open" THEN <<"write_pending", "ok">>
  ELSE <<"write_ready", "bad_descriptor">>

\* Faulty variant: an orderly end of file ends only this pipeline (a half-close is
\* tolerated); close is called for the other errors only.
HandleRead_eof(r, s, fail) ==
  /\ proc = "running"
  /\ op[r][s] = "read_ready"
  /\ IF ec[r][s] = "ok"
       THEN /\ fail = "none"
            /\ op' = [op EXCEPT ![r][s] = async_write(r, s)[1]]
            /\ ec' = [ec EXCEPT ![r][s] = async_write(r, s)[2]]
            /\ woff' = [woff EXCEPT ![r][s] = 0]
            /\ refs' = HandlerReturns(r, 1)
            /\ UNCHANGED <<proc, threw, socket_, nclose, ninvoke>>
       ELSE IF ec[r][s] = "eof"
       THEN /\ fail = "none"
            /\ op' = [op EXCEPT ![r][s] = "done"]
            /\ ec' = [ec EXCEPT ![r][s] = "ok"]
            /\ proc' = RunOrReturn(accept_op, connect_op, [op EXCEPT ![r][s] = "done"])
            /\ refs' = HandlerReturns(r, 0)
            /\ UNCHANGED <<woff, threw, socket_, nclose, ninvoke>>
       ELSE /\ close(r, connect_op, [op EXCEPT ![r][s] = "done"],
                     [ec EXCEPT ![r][s] = "ok"], fail)
            /\ refs' = HandlerReturns(r, 0)
            /\ UNCHANGED woff
  /\ UNCHANGED <<cfgVars, listenerVars, connect_op, data_,
                 bytes_transferred, rxq, peer, readlog, delivered, nconnect>>

\* handle_upstream_read (s = "upstream"), handle_downstream_read (s = "downstream")
HandleRead(r, s, fail) ==
  /\ proc = "running"
  /\ op[r][s] = "read_ready"
  /\ IF ec[r][s] = "ok"
       THEN /\ fail = "none"
            /\ op' = [op EXCEPT ![r][s] = async_write(r, s)[1]]
            /\ ec' = [ec EXCEPT ![r][s] = async_write(r, s)[2]]
            /\ woff' = [woff EXCEPT ![r][s] = 0]
            /\ refs' = HandlerReturns(r, 1)
            /\ UNCHANGED <<proc, threw, socket_, nclose, ninvoke>>
       ELSE /\ close(r, connect_op, [op EXCEPT ![r][s] = "done"],
                     [ec EXCEPT ![r][s] = "ok"], fail)
            /\ refs' = HandlerReturns(r, 0)
            /\ UNCHANGED woff
  /\ UNCHANGED <<cfgVars, listenerVars, connect_op, data_,
                 bytes_transferred, rxq, peer, readlog, delivered, nconnect>>

\* Faulty variant: the write is a single async_write_some, complete after the
\* first k bytes.
WriteProgress_some(r, s, k) ==
  /\ proc = "running"
  /\ op[r][s] = "write_pending"
  /\ peer[r][Other(s)] \in {"open", "shut_wr"}
  /\ k \in 1..(WriteLen(r, s) - woff[r][s])
  /\ delivered' = [delivered EXCEPT ![r][Other(s)] =
                     @ \o SubSeq(Buffer(r, s), woff[r][s] + 1, woff[r][s] + k)]
  /\ woff' = [woff EXCEPT ![r][s] = @ + k]
  /\ op' = [op EXCEPT ![r][s] = "write_ready"]
  /\ UNCHANGED <<proc, threw, cfgVars, listenerVars, connect_op, socket_,
                 ec, data_, bytes_transferred, rxq, peer, readlog, nclose,
                 ninvoke, nconnect, refs>>

\* The operating system takes k more bytes of the async_write of pipeline s;
\* the composed operation completes when all WriteLen bytes are written.
WriteProgress(r, s, k) ==
  /\ proc = "running"
  /\ op[r][s] = "write_pending"
  /\ peer[r][Other(s)] \in {"open", "shut_wr"}
  /\ k \in 1..(WriteLen(r, s) - woff[r][s])
  /\ delivered' = [delivered EXCEPT ![r][Other(s)] =
                     @ \o SubSeq(Buffer(r, s), woff[r][s] + 1, woff[r][s] + k)]
  /\ woff' = [woff EXCEPT ![r][s] = @ + k]
  /\ op' = [op EXCEPT ![r][s] =
              IF woff[r][s] + k = WriteLen(r, s) THEN "write_ready" ELSE @]
  /\ UNCHANGED <<proc, threw, cfgVars, listenerVars, connect_op, socket_,
                 ec, data_, bytes_transferred, rxq, peer, readlog, nclose,
                 ninvoke, nconnect, refs>>

\* The async_write of pipeline s fails: the peer has closed the connection.
WriteFail(r, s) ==
  /\ proc = "running"
  /\ op[r][s] = "write_pending"
  /\ peer[r][Other(s)] = "closed"
  /\ op' = [op EXCEPT ![r][s] = "write_ready"]
  /\ ec' = [ec EXCEPT ![r][s] = "broken_pipe"]
  /\ UNCHANGED <<proc, threw, cfgVars, listenerVars, connect_op, socket_,
                 bufVars, rxq, peer, histVars>>

\* handle_downstream_write (s = "upstream"), handle_upstream_write (s = "downstream")
HandleWrite(r, s, fail) ==
  /\ proc = "running"
  /\ op[r][s] = "write_ready"
  /\ IF ec[r][s] = "ok"
       THEN /\ fail = "none"
            /\ op' = [op EXCEPT ![r][s] = async_read_some(r, s)[1]]
            /\ ec' = [ec EXCEPT ![r][s] = async_read_some(r, s)[2]]
            /\ refs' = HandlerReturns(r, 1)
            /\ UNCHANGED <<proc, threw, socket_, nclose, ninvoke>>
       ELSE /\ close(r, connect_op, [op EXCEPT ![r][s] = "done"],
                     [ec EXCEPT ![r][s] = "ok"], fail)
            /\ refs' = HandlerReturns(r, 0)
  /\ UNCHANGED <<cfgVars, listenerVars, connect_op, bufVars, rxq, peer,
                 readlog, delivered, nconnect>>

handle_upstream_read(r, fail) == HandleRead(r, "upstream", fail)
handle_downstream_write(r, fail) == HandleWrite(r, "upstream", fail)
handle_downstream_read(r, fail) == HandleRead(r, "downstream", fail)
handle_upstream_write(r, fail) == HandleWrite(r, "downstream", fail)

(***************************************************************************)
(* The peers: the client of a bridge and the remote server it connected to *)
(***************************************************************************)

Sent(r, s) == Len(readlog[r][s]) + Len(rxq[r][s])

\* A connected peer whose connection the bridge has not closed.
Connected(r, s) == socket_[r][s] = "open" /\ proc = "running"

PeerSend(r, s) ==
  /\ Connected(r, s)
  /\ peer[r][s] = "open"
  /\ Sent(r, s) < load.bytes
  /\ rxq' = [rxq EXCEPT ![r][s] = Append(@, PeerStream(r, s)[Sent(r, s) + 1])]
  /\ UNCHANGED <<proc, threw, cfgVars, listenerVars, connect_op, socket_,
                 op, ec, bufVars, peer, histVars>>

\* The peer stops reading (its receive window fills) or reads again.
PeerStall(r, s) ==
  /\ Connected(r, s)
  /\ peer[r][s] = "open"
  /\ peer' = [peer EXCEPT ![r][s] = "stalled"]
  /\ UNCHANGED <<proc, threw, cfgVars, listenerVars, connect_op, socket_,
                 op, ec, bufVars, rxq, histVars>>

PeerResume(r, s) ==
  /\ Connected(r, s)
  /\ peer[r][s] = "stalled"
  /\ peer' = [peer EXCEPT ![r][s] = "open"]
  /\ UNCHANGED <<proc, threw, cfgVars, listenerVars, connect_op, socket_,
                 op, ec, bufVars, rxq, histVars>>

\* The peer shuts down its sending direction and keeps receiving.
PeerShutdown(r, s) ==
  /\ Connected(r, s)
  /\ peer[r][s] = "open"
  /\ peer' = [peer EXCEPT ![r][s] = "shut_wr"]
  /\ UNCHANGED <<proc, threw, cfgVars, listenerVars, connect_op, socket_,
                 op, ec, bufVars, rxq, histVars>>

\* The peer closes its socket.
PeerClose(r, s) ==
  /\ Connected(r, s)
  /\ peer[r][s] \in {"open", "stalled", "shut_wr"}
  /\ peer' = [peer EXCEPT ![r][s] = "closed"]
  /\ UNCHANGED <<proc, threw, cfgVars, listenerVars, connect_op, socket_,
                 op, ec, bufVars, rxq, histVars>>

Failures == {"none"} \cup Side

Next ==
  \/ AcceptComplete
  \/ handle_accept
  \/ \E r \in Relays : ConnectComplete(r)
  \/ \E r \in Relays, fail \in Failures : handle_upstream_connect(r, fail)
  \/ \E r \in Relays, s \in Side : ReadComplete(r, s)
  \/ \E r \in Relays, fail \in Failures : handle_upstream_read(r, fail)
  \/ \E r \in Relays, fail \in Failures : handle_downstream_read(r, fail)
  \/ \E r \in Relays, s \in Side, k \in 1..max_data_length : WriteProgress(r, s, k)
  \/ \E r \in Relays, s \in Side : WriteFail(r, s)
  \/ \E r \in Relays, fail \in Failures : handle_downstream_write(r, fail)
  \/ \E r \in Relays, fail \in Failures : handle_upstream_write(r, fail)
  \/ \E r \in Relays, s \in Side : PeerSend(r, s)
  \/ \E r \in Relays, s \in Side : PeerStall(r, s)
  \/ \E r \in Relays, s \in Side : PeerResume(r, s)
  \/ \E r \in Relays, s \in Side : PeerShutdown(r, s)
  \/ \E r \in Relays, s \in Side : PeerClose(r, s)

Spec == Init /\ [][Next]_vars

\* Several sessions at once, with peers that send and close.
NextSessions ==
  \/ AcceptComplete
  \/ handle_accept
  \/ \E r \in Relays : ConnectComplete(r)
  \/ \E r \in Relays, fail \in Failures : handle_upstream_connect(r, fail)
  \/ \E r \in Relays, s \in Side : ReadComplete(r, s)
  \/ \E r \in Relays, fail \in Failures : handle_upstream_read(r, fail)
  \/ \E r \in Relays, fail \in Failures : handle_downstream_read(r, fail)
  \/ \E r \in Relays, s \in Side, k \in 1..max_data_length : WriteProgress(r, s, k)
  \/ \E r \in Relays, s \in Side : WriteFail(r, s)
  \/ \E r \in Relays, fail \in Failures : handle_downstream_write(r, fail)
  \/ \E r \in Relays, fail \in Failures : handle_upstream_write(r, fail)
  \/ \E r \in Relays, s \in Side : PeerSend(r, s)
  \/ \E r \in Relays : PeerClose(r, "downstream")

SpecSessions == InitSessions /\ [][NextSessions]_vars

(***************************************************************************)
(* Properties                                                              *)
(***************************************************************************)

Elems(q) == {q[i] : i \in 1..Len(q)}
BothClosed(r) == \A s \in Side : socket_[r][s] = "closed"
BothOpen(r) == \A s \in Side : socket_[r][s] = "open"

\* C1: in each direction of every bridge the bytes written to the
\* destination socket are a prefix of the bytes read from the source socket
\* (which are a prefix of what the peer sent), and the bytes read and not
\* yet written fit in one buffer.
C1_ByteExact ==
  \A r \in Relays, s \in Side :
    /\ IsPrefix(delivered[r][Other(s)], readlog[r][s])
    /\ IsPrefix(readlog[r][s], PeerStream(r, s))
    /\ Len(readlog[r][s]) - Len(delivered[r][Other(s)]) <= max_data_length

\* C1 witness: a second chunk is in flight, partly written, after a first
\* full chunk was delivered.
C1_Witness ==
  \E r \in Relays, s \in Side :
    /\ Len(delivered[r][Other(s)]) = max_data_length
    /\ Len(readlog[r][s]) > max_data_length
    /\ op[r][s] = "write_pending"

\* The bytes the peer on side s has sent to the bridge.
SentBytes(r, s) == readlog[r][s] \o rxq[r][s]

\* C2: transparency in every run: once a bridge that connected upstream is
\* torn down (and no exception ended the process), a peer that is still
\* there to receive has received all the bytes the other peer sent.
C2_Transparency ==
  \A r \in Relays, s \in Side :
    ( /\ connect_op[r] = "done_ok"
      /\ ninvoke[r] > 0
      /\ threw = <<>>
      /\ peer[r][Other(s)] \in {"open", "shut_wr"} )
    => delivered[r][Other(s)] = SentBytes(r, s)

\* A step of bridge r that needs nothing more from either peer: a
\* completion the operating system can deliver, or a handler that is ready.
BridgeStep(r) ==
  \E s \in Side, fail \in Failures, k \in 1..max_data_length :
    \/ ReadComplete(r, s)
    \/ HandleRead(r, s, fail)
    \/ WriteProgress(r, s, k)
    \/ WriteFail(r, s)
    \/ HandleWrite(r, s, fail)

\* C3: mutual teardown: when a peer of a forwarding bridge has closed its
\* socket and the bridge has completed everything it can without further
\* action of a peer, both sockets of the bridge are closed.
C3_MutualTeardown ==
  \A r \in Relays :
    ( /\ proc = "running"
      /\ connect_op[r] = "done_ok"
      /\ \E s \in Side : peer[r][s] = "closed"
      /\ ~ ENABLED BridgeStep(r) )
    => BothClosed(r)

\* C4: close idempotence: each socket is closed at most once, no invocation
\* of close reports an error, and once close has been invoked both sockets
\* are closed.
C4_CloseIdempotent ==
  /\ \A r \in Relays, s \in Side : nclose[r][s] <= 1
  /\ (threw # <<>> => threw[1] # "close")
  /\ \A r \in Relays : ninvoke[r] > 0 => BothClosed(r)

\* C5: after a failed upstream connect has been handled the client socket
\* and the upstream socket are closed, one connect was attempted, no
\* pipeline was started and no byte was read from or written to the client.
C5_ConnectFailure ==
  \A r \in Relays :
    connect_op[r] = "done_err" =>
      /\ BothClosed(r)
      /\ nconnect[r] = 1
      /\ \A s \in Side : op[r][s] = "idle"
      /\ readlog[r]["downstream"] = <<>>
      /\ delivered[r]["downstream"] = <<>>

\* C5 witness: the connect failed after the client had already sent bytes,
\* and close closed the client socket.
C5_Witness ==
  \E r \in Relays :
    /\ connect_op[r] = "done_err"
    /\ rxq[r]["downstream"] # <<>>
    /\ nclose[r]["downstream"] = 1
    /\ threw = <<>>

\* C6: the streams of two bridges never cross: every byte written to a
\* socket of bridge r was read from the other socket of r, and was read by
\* no other bridge.
C6_NoCrossing ==
  \A r \in Relays, s \in Side :
    /\ Elems(delivered[r][s]) \subseteq Elems(readlog[r][Other(s)])
    /\ \A q \in Relays \ {r}, u \in Side :
         Elems(delivered[r][s]) \cap Elems(readlog[q][u]) = {}

\* C6 witness: two bridges are forwarding at the same time and each has
\* written bytes to both of its sockets.
C6_Witness ==
  \E r, q \in Relays :
    /\ r # q
    /\ BothOpen(r) /\ BothOpen(q)
    /\ \A s \in Side : delivered[r][s] # <<>> /\ delivered[q][s] # <<>>

\* C7: a read or write that completed with any error (end of file
\* included) makes its handler call close and end the pipeline: both
\* sockets are closed, no operation is issued, and a pipeline that ended
\* never issues an operation again.
C7_ErrorClosesBoth ==
  [][\A r \in Relays, s \in Side :
       /\ ( /\ op[r][s] \in {"read_ready", "write_ready"}
            /\ ec[r][s] # "ok"
            /\ op'[r][s] # op[r][s] )
          => /\ op'[r][s] = "done"
             /\ ninvoke'[r] = ninvoke[r] + 1
             /\ \A u \in Side : socket_'[r][u] = "closed"
       /\ op[r][s] = "done" => op'[r][s] = "done"]_vars

\* C7 witness: the client only shut down its sending side, the upstream
\* peer did nothing, and the bridge closed both sockets.
C7_Witness ==
  \E r \in Relays :
    /\ peer[r]["downstream"] = "shut_wr"
    /\ peer[r]["upstream"] = "open"
    /\ op[r]["downstream"] = "done"
    /\ ninvoke[r] = 1
    /\ BothClosed(r)
    /\ threw = <<>>

\* C8: no failure of one connection terminates the process: once main is
\* inside ios.run() the process never exits with code 1.
C8_Containment == proc # "exit1" /\ threw = <<>>

\* C9: when an accept has completed with an error, its handler issues a
\* new accept: the accept loop does not end.
C9_AcceptLoopContinues ==
  [][accept_op = "ready_err" => accept_op' \in {"ready_err", "pending"}]_vars

\* A bridge whose connect, or whose read, does not complete.
ConnectWaits(r) == connect_op[r] = "pending"
ReadWaits(r) == \E s \in Side : op[r][s] = "read_pending" /\ rxq[r][s] = <<>>

\* C10: handle_accept issues the next accept while the connect of the
\* bridge it started is still to complete, and a bridge waiting for its
\* connect or for data disables no step of the acceptor or of another bridge.
C10_AcceptNotBlocked ==
  /\ [][(accept_op = "ready_ok" /\ accept_op' = "pending")
          => connect_op'[session_] \in {"pending", "ready_err"}]_vars
  /\ [](\A r \in Relays :
          (proc = "running" /\ (ConnectWaits(r) \/ ReadWaits(r))) =>
            /\ accept_op = "pending" => ENABLED AcceptComplete
            /\ accept_op \in {"ready_ok", "ready_err"} => ENABLED handle_accept
            /\ \A q \in Relays \ {r} :
                 /\ connect_op[q] \in {"ready_ok", "ready_err"} =>
                      ENABLED (\E fail \in Failures : handle_upstream_connect(q, fail))
                 /\ \A s \in Side :
                      /\ op[q][s] = "read_ready" =>
                           ENABLED (\E fail \in Failures : HandleRead(q, s, fail))
                      /\ op[q][s] = "write_ready" =>
                           ENABLED (\E fail \in Failures : HandleWrite(q, s, fail)))

\* C10 witness: an accept is outstanding while two bridges wait for their
\* upstream connect.
C10_Witness ==
  /\ accept_op = "pending"
  /\ \E r, q \in Relays : r # q /\ ConnectWaits(r) /\ ConnectWaits(q)

\* C11: the two closes of bridge::close are independent: an invocation
\* calls close() on every socket of the bridge that is open when it starts,
\* the upstream socket included when the close() of the downstream socket
\* fails.
C11_IndependentCloses ==
  [][\A r \in Relays :
       ninvoke'[r] = ninvoke[r] + 1 =>
         \A s \in Side :
           socket_[r][s] = "open" => nclose'[r][s] = nclose[r][s] + 1]_vars

\* The operations of bridge r whose handler is still to run.
OutstandingOps(r) ==
  (IF connect_op[r] \in {"pending", "ready_ok", "ready_err"} THEN 1 ELSE 0)
    + Cardinality({s \in Side : op[r][s] \in Outstanding})

\* C12: while the process runs, the handler of every outstanding connect,
\* read and write of a bridge holds one reference to it, so its use count
\* is at least the number of its outstanding operations and a destroyed
\* bridge has no operation outstanding whose handler could run on it.
C12_LifetimeSafety ==
  \A r \in Relays :
    proc = "running" =>
      /\ refs[r] = OutstandingOps(r)
      /\ use_count(r) >= OutstandingOps(r)
      /\ Destroyed(r) => OutstandingOps(r) = 0

\* C12 witness: a bridge the acceptor has let go of is torn down and is
\* kept alive only by the handler of its one operation still outstanding.
C12_Witness ==
  \E r \in Relays :
    /\ proc = "running"
    /\ bridge[r] = "started"
    /\ session_ # r
    /\ ninvoke[r] > 0
    /\ OutstandingOps(r) = 1
    /\ use_count(r) = 1

\* A step the program takes without further action of a peer: a completion
\* by the operating system, or a handler that is ready to run.
ProgramStep ==
  \/ AcceptComplete
  \/ handle_accept
  \/ \E r \in Relays, fail \in Failures :
       \/ ConnectComplete(r)
       \/ handle_upstream_connect(r, fail)
       \/ BridgeStep(r)

\* C13: once bridge::close has run on a started bridge, its outstanding
\* operations complete and the bridge is destroyed: when the handlers have
\* run and the program waits for its peers, no reference to the bridge is
\* left, so a torn down bridge does not stay allocated while the process
\* runs on.
C13_Released ==
  \A r \in Relays :
    ( /\ proc = "running"
      /\ bridge[r] = "started"
      /\ ninvoke[r] > 0
      /\ ~ ENABLED ProgramStep )
    => (OutstandingOps(r) = 0 /\ Destroyed(r))

\* The last n elements of sequence q.
LastN(q, n) == SubSeq(q, Len(q) - n + 1, Len(q))

\* C14: in each pipeline reads and writes alternate: a write is issued only
\* by the handler of a read that completed successfully and carries exactly
\* the N bytes (1 <= N <= max_data_length) that read returned; the next read
\* is issued only by the handler of a write that wrote all N bytes; the
\* buffer does not change while its write is outstanding.
C14_Alternation ==
  [][\A r \in Relays, s \in Side :
       /\ ( op[r][s] \notin {"write_pending", "write_ready"}
            /\ op'[r][s] \in {"write_pending", "write_ready"} )
          => /\ op[r][s] = "read_ready" /\ ec[r][s] = "ok"
             /\ WriteLen(r, s) = bytes_transferred[r][s]
             /\ WriteLen(r, s) \in 1..max_data_length
             /\ SubSeq(Buffer(r, s), 1, WriteLen(r, s))
                  = LastN(readlog[r][s], bytes_transferred[r][s])
             /\ woff'[r][s] = 0
       /\ ( op[r][s] \notin {"read_pending", "read_ready"}
            /\ op'[r][s] \in {"read_pending", "read_ready"} )
          => \/ op[r][s] = "idle"
             \/ /\ op[r][s] = "write_ready" /\ ec[r][s] = "ok"
                /\ woff[r][s] = bytes_transferred[r][s]
                /\ LastN(delivered[r][Other(s)], bytes_transferred[r][s])
                     = LastN(readlog[r][s], bytes_transferred[r][s])
       /\ op[r][s] \in {"write_pending", "write_ready"}
          => /\ data_'[r][s] = data_[r][s]
             /\ bytes_transferred'[r][s] = bytes_transferred[r][s]
             /\ readlog'[r][s] = readlog[r][s]
     ]_vars

\* C14 witness: a pipeline waits in its third read after two complete
\* read/write rounds delivered all the bytes of its peer.
C14_Witness ==
  \E r \in Relays, s \in Side :
    /\ op[r][s] = "read_pending"
    /\ Len(delivered[r][Other(s)]) = MaxSend
    /\ MaxSend > max_data_length

\* bridge::close has returned on bridge r.
TornDown(r) == proc = "running" /\ ninvoke[r] > 0

\* C15: after bridge::close has returned, no read or write is in progress
\* on either socket of the bridge and no byte is read or written; an
\* operation a handler issues afterwards completes with bad_descriptor, in
\* particular the write issued for a read that had completed successfully
\* before, and the handler of the failed operation ends its pipeline
\* through bridge::close.
C15_NothingAfterClose ==
  /\ [](\A r \in Relays :
          TornDown(r) =>
            /\ BothClosed(r)
            /\ \A s \in Side : op[r][s] \notin {"read_pending", "write_pending"})
  /\ [][\A r \in Relays :
          TornDown(r) =>
            /\ delivered'[r] = delivered[r]
            /\ readlog'[r] = readlog[r]
            /\ \A s \in Side :
                 op'[r][s] # op[r][s] =>
                   \/ /\ op[r][s] = "read_ready" /\ ec[r][s] = "ok"
                      /\ op'[r][s] = "write_ready"
                      /\ ec'[r][s] = "bad_descriptor"
                   \/ /\ op[r][s] = "write_ready" /\ ec[r][s] = "ok"
                      /\ op'[r][s] = "read_ready"
                      /\ ec'[r][s] = "bad_descriptor"
                   \/ /\ op[r][s] \in {"read_ready", "write_ready"}
                      /\ ec[r][s] # "ok"
                      /\ op'[r][s] = "done"
                      /\ ninvoke'[r] = ninvoke[r] + 1]_vars

\* C15 witness: the other pipeline has torn the bridge down; the write
\* issued for bytes that were read before has failed on the closed socket
\* and the bytes are not delivered.
C15_Witness ==
  \E r \in Relays, s \in Side :
    /\ TornDown(r)
    /\ op[r][Other(s)] = "done"
    /\ op[r][s] = "write_ready"
    /\ ec[r][s] = "bad_descriptor"
    /\ bytes_transferred[r][s] > 0
    /\ Len(delivered[r][Other(s)]) < Len(readlog[r][s])

\* C16: the two pipelines of a bridge are started once, together, by the
\* handler of a successful connect: while the connect has not been handled
\* no read or write is outstanding on either socket, no byte was read from
\* the client and bridge::close was not invoked; a started pipeline is
\* never started again.
C16_StartOnConnect ==
  /\ [](\A r \in Relays :
          connect_op[r] \in {"none", "pending", "ready_ok", "ready_err"} =>
            /\ \A s \in Side :
                 /\ op[r][s] = "idle"
                 /\ readlog[r][s] = <<>>
                 /\ delivered[r][s] = <<>>
            /\ ninvoke[r] = 0)
  /\ [][\A r \in Relays, s \in Side :
          /\ (op[r][s] = "idle" /\ op'[r][s] # "idle") =>
               /\ connect_op[r] = "ready_ok"
               /\ connect_op'[r] = "done_ok"
               /\ \A p \in Side : op[r][p] = "idle" /\ op'[r][p] = "read_pending"
          /\ op[r][s] # "idle" => op'[r][s] # "idle"
          /\ connect_op[r] \in {"done_ok", "done_err"} =>
               connect_op'[r] = connect_op[r]]_vars

\* C16 witness: the pipelines have just been started; the bytes the client
\* sent while the connect was pending are still unread.
C16_Witness ==
  \E r \in Relays :
    /\ connect_op[r] = "done_ok"
    /\ \A s \in Side : op[r][s] = "read_pending"
    /\ Len(rxq[r]["downstream"]) = MaxSend
    /\ readlog[r]["downstream"] = <<>>

\* C17: a closed socket of a bridge is never reopened: the upstream socket
\* is opened by the one async_connect of the bridge, the downstream socket
\* by the one accept that targets the bridge while the acceptor holds it
\* unstarted, and no socket is opened after a close() call on it or after
\* an invocation of bridge::close.
C17_NoReopen ==
  /\ [](\A r \in Relays :
          /\ nconnect[r] <= 1
          /\ socket_[r]["upstream"] = "open" => nconnect[r] = 1
          /\ socket_[r]["downstream"] = "open" => bridge[r] # "unused"
          /\ \A s \in Side : socket_[r][s] \in {"open", "closed"})
  /\ [][/\ \A r \in Relays, s \in Side :
             (socket_[r][s] = "closed" /\ socket_'[r][s] = "open") =>
               /\ nclose[r][s] = 0
               /\ ninvoke[r] = 0
               /\ s = "upstream" => nconnect[r] = 0 /\ nconnect'[r] = 1
               /\ s = "downstream" => accept_op = "pending" /\ session_ = r
        /\ (accept_op = "pending" /\ accept_op' = "ready_ok") =>
             /\ bridge[session_] = "constructed"
             /\ socket_[session_]["downstream"] = "closed"]_vars

\* C17 witness: after bridge::close closed both sockets once, a handler
\* issued a read on a closed socket; the read failed and the socket stayed
\* closed.
C17_Witness ==
  \E r \in Relays, s \in Side :
    /\ TornDown(r)
    /\ BothClosed(r)
    /\ \A p \in Side : nclose[r][p] = 1
    /\ nconnect[r] = 1
    /\ op[r][s] = "read_ready"
    /\ ec[r][s] = "bad_descriptor"

\* An operation of bridge r has completed with an error and its handler is
\* still to run.
HadError(r) ==
  \/ connect_op[r] = "ready_err"
  \/ \E s \in Side : op[r][s] \in {"read_ready", "write_ready"} /\ ec[r][s] # "ok"

\* C18: a bridge never closes on its own: bridge::close is invoked only
\* when an operation of the bridge has completed with an error, and the
\* sockets of a bridge that has both open do not close unless an operation
\* of that bridge has completed with an error.
C18_NoSpontaneousClose ==
  [][\A r \in Relays :
       /\ ninvoke'[r] > ninvoke[r] => HadError(r)
       /\ (BothOpen(r) /\ ~ BothOpen(r)') => HadError(r)]_vars

\* C19: while an accept is outstanding the acceptor holds, in session_, the
\* one bridge that is constructed and not started, and its downstream
\* socket is the target of the accept; handle_accept starts exactly that
\* bridge after its socket received the connection, once, and puts a fresh
\* bridge into session_ before the next accept is issued.
C19_AcceptTarget ==
  /\ [](/\ \A r \in Relays : bridge[r] = "constructed" => r = session_
        /\ \A r \in Relays : nconnect[r] <= 1 /\ (bridge[r] = "started" => nconnect[r] = 1)
        /\ accept_op # "none" =>
             /\ bridge[session_] = "constructed"
             /\ nconnect[session_] = 0
             /\ connect_op[session_] = "none"
             /\ socket_[session_]["upstream"] = "closed"
        /\ accept_op = "pending" /\ proc = "running" =>
             socket_[session_]["downstream"] = "closed")
  /\ [][/\ \A r \in Relays :
             (bridge[r] # "started" /\ bridge'[r] = "started") =>
               /\ r = session_
               /\ accept_op = "ready_ok"
               /\ bridge[r] = "constructed"
               /\ socket_[r]["downstream"] = "open"
               /\ nconnect'[r] = 1
               /\ accept_op' = "pending" =>
                    /\ session_' # r
                    /\ bridge[session_'] = "unused"
                    /\ bridge'[session_'] = "constructed"
        /\ (accept_op # "pending" /\ accept_op' = "pending") =>
             accept_op = "ready_ok" /\ bridge'[session_] = "started"
        /\ \A r \in Relays : bridge[r] = "started" => bridge'[r] = "started"]_vars

\* C19 witness: two bridges were started, each on its own client
\* connection, and the next accept is outstanding on a third, unstarted one.
C19_Witness ==
  /\ proc = "running"
  /\ accept_op = "pending"
  /\ bridge[session_] = "constructed"
  /\ \E r, q \in Relays :
       /\ r # q
       /\ bridge[r] = "started" /\ bridge[q] = "started"
       /\ socket_[r]["downstream"] = "open" /\ socket_[q]["downstream"] = "open"

\* C20: the process leaves ios.run() only when no operation is outstanding,
\* and then exits with code 0: it runs while the accept or an operation of a
\* bridge is outstanding, also after the accept loop has stopped, and it has
\* exited with code 0 exactly when nothing is outstanding.
C20_RunsWhileWork ==
  /\ [](/\ proc = "running" => Work(accept_op, connect_op, op)
        /\ proc = "exit0" => ~ Work(accept_op, connect_op, op))
  /\ [][(proc = "running" /\ proc' # "running") =>
          /\ proc' = "exit0"
          /\ ~ Work(accept_op', connect_op', op')]_vars
====
